---- MODULE Spec2Model ----
(***************************************************************************)
(* A model of chess.py, the TCP front-end that proxies UCI chess engines.  *)
(*                                                                         *)
(*   SpecPlanner    generate_subnets_to_avoid, run loop by loop            *)
(*   SpecAdmission  check_connection_attempts over the shared attempt map  *)
(*   Spec           one run of client_handler with its engine, its client  *)
(*                  and its heartbeat and inactivity tasks                 *)
(*   FairSpec       Spec with the event loop's fairness                    *)
(*                                                                         *)
(* Time is in seconds.  An IPv4 network is the sequence of its prefix      *)
(* bits (most significant first); an address is a network of 32 bits.      *)
(***************************************************************************)
EXTENDS Integers, Sequences, FiniteSets, TLC

VARIABLES
    \* ---- generate_subnets_to_avoid
    ip_addresses_to_avoid,  \* argument: IPv4 literals
    subnets_to_avoid,       \* argument: CIDR strings
    public_idx,             \* position of the outer loop in public_ranges
    exclude_idx,            \* position of the inner loop in addresses_to_exclude
    current_ranges,         \* the local list of the same name
    subnets_to_use,         \* the local list of the same name
    \* ---- check_connection_attempts
    config,                 \* the feature flags of config.json
    now,                    \* time.time()
    connection_attempts,    \* the module-level dict: ip -> list of timestamps
    block_requests,         \* the block_ip_address tasks created, in order
    last_check,             \* history: the latest call of check_connection_attempts
    attempt_history,        \* history: per ip, its latest call and its current run of calls
    checks_done,            \* history: number of calls so far
    \* ---- client_handler, one connection
    client_ip,              \* writer.get_extra_info('peername')[0]
    pc,                     \* where client_handler is
    permits,                \* free units of sem
    last_activity_time,     \* the local of the same name
    inactivity_task,        \* the check_inactivity task: [state, wake]
    heartbeat_task,         \* the heartbeat task: [state, wake]
    writer,                 \* the proxy's end of the client stream: "open" or "closed"
    client,                 \* the client's end: "open", "eof" (sent FIN) or "lost" (reset)
    client_buf,             \* lines the client sent that reader.readline has not returned
    client_sent,            \* number of lines the client has sent
    engine_process,         \* "none", "running" or "exited"
    engine_eof,             \* the engine's stdout is at end of file once drained
    engine_out,             \* lines the engine wrote that stdout.readline has not returned
    engine_emitted,         \* number of lines the engine has written
    engine_said_uciok,      \* the engine has written a line containing "uciok"
    engine_writes,          \* what process_command wrote to the engine's stdin, in order
    to_client,              \* what was written to the client stream: [lines, pings], counted
    cpump,                  \* process_client_commands: "idle", "reading", "done", "raised"
    epump,                  \* process_engine_responses: the same
    last_line_time,         \* history: when the proxy last read a line in either direction
    last_forward,           \* history: the latest client line and what was written for it
    inactivity_closed_idle, \* history: -1, or now - last_line_time when check_inactivity closed the writer
    returned_at,            \* history: -1, or the time client_handler returned or raised
    \* ---- several connections sharing sem
    sem,                    \* free units of the module-level semaphore
    conn_pc,                \* per connection: where its client_handler is
    conn_engine,            \* per connection: its engine_process, "none", "running" or "exited"
    \* ---- main, its start_server tasks and asyncio.run
    main_pc,                \* where main is
    shutdown_event,         \* the asyncio.Event of the same name
    listeners,              \* per engine name: its start_server task
    watchdog_task,          \* "none", "running" or "cancelled"
    active_session,         \* a client_handler task of one listener: [handler, engine, socket, listener]
    wait_closed_waits,      \* the asyncio build: Server.wait_closed() waits for open connections
    firewall_failure,       \* history: how a firewall command failed at boot, or "no"
    active_at_signal,       \* history: a session was active when the signal arrived
    \* ---- block_ip_address and the firewall
    firewall_rule,          \* the Chess-Block-IPs rule: [present, remoteip]
    block_requested,        \* history: the global IPs block_ip_address was called for
    commands_ok,            \* history: every firewall command so far returned 0
    last_block              \* history: the latest call: [ip, before, after]

plVars == <<ip_addresses_to_avoid, subnets_to_avoid, public_idx, exclude_idx,
            current_ranges, subnets_to_use>>
admVars == <<connection_attempts, block_requests, last_check, attempt_history,
             checks_done>>
clientVars == <<client, client_buf, client_sent>>
engineVars == <<engine_process, engine_eof, engine_out, engine_emitted, engine_said_uciok>>
taskVars == <<inactivity_task, heartbeat_task>>
handlerVars == <<client_ip, pc, permits, last_activity_time, writer, engine_writes,
                 to_client, cpump, epump, last_line_time, last_forward,
                 inactivity_closed_idle, returned_at>>
sessVars == <<handlerVars, taskVars, clientVars, engineVars>>
poolVars == <<sem, conn_pc, conn_engine>>
supVars == <<main_pc, shutdown_event, listeners, watchdog_task, active_session,
            wait_closed_waits, firewall_failure, active_at_signal>>
fwVars == <<firewall_rule, block_requested, commands_ok, last_block>>
otherVars == <<poolVars, supVars, fwVars>>
vars == <<plVars, otherVars, config, now, admVars, sessVars>>

(***************************************************************************)
(* IPv4 addresses and networks                                             *)
(***************************************************************************)
Pow2(n) == 2^n

\* bit i (1..32, most significant first) of the address a.b.c.d
OctetBit(octets, i) == (octets[((i - 1) \div 8) + 1] \div Pow2(7 - ((i - 1) % 8))) % 2

\* ipaddress.ip_network("a.b.c.d/len")
ip_network(a, b, c, d, len) == [i \in 1..len |-> OctetBit(<<a, b, c, d>>, i)]

\* net1.subnet_of(net2): net2's prefix is a prefix of net1's
subnet_of(net1, net2) ==
    /\ Len(net2) <= Len(net1)
    /\ \A i \in 1..Len(net2) : net1[i] = net2[i]

RECURSIVE ExcludeWalk(_, _)
ExcludeWalk(self, other) ==
    IF other = self THEN <<>>
    ELSE LET s1 == Append(self, 0)
             s2 == Append(self, 1)
         IN  IF subnet_of(other, s1)
             THEN <<s2>> \o ExcludeWalk(s1, other)
             ELSE <<s1>> \o ExcludeWalk(s2, other)

\* current_range.address_exclude(address_to_exclude) inside the try of the
\* inner loop: ValueError (other not contained in self) keeps current_range
ExcludeOrKeep(current_range, address_to_exclude) ==
    IF subnet_of(address_to_exclude, current_range)
    THEN ExcludeWalk(current_range, address_to_exclude)
    ELSE <<current_range>>

\* "a.b.c.d" -> the four octets, for the literals the model draws from
Octets(ip) ==
    CASE ip = "1.2.3.4"      -> <<1, 2, 3, 4>>
      [] ip = "10.0.0.5"     -> <<10, 0, 0, 5>>
      [] ip = "192.168.1.7"  -> <<192, 168, 1, 7>>
      [] ip = "203.0.113.1"  -> <<203, 0, 113, 1>>
      [] ip = "198.51.100.2" -> <<198, 51, 100, 2>>
      [] ip = "8.8.8.8"      -> <<8, 8, 8, 8>>
      [] ip = "9.9.9.9"      -> <<9, 9, 9, 9>>

\* the literals the model draws from, parsed once
AddressLiterals ==
    {"1.2.3.4", "10.0.0.5", "192.168.1.7", "203.0.113.1", "198.51.100.2",
     "8.8.8.8", "9.9.9.9"}
AddressBits ==
    [ip \in AddressLiterals |->
        LET o == Octets(ip) IN ip_network(o[1], o[2], o[3], o[4], 32)]
NetworkLiterals ==
    {"1.2.0.0/16", "1.2.3.0/24", "128.0.0.0/1", "10.0.0.0/8", "192.168.1.0/24"}
NetworkBits ==
    [subnet \in NetworkLiterals |->
        CASE subnet = "1.2.0.0/16"     -> ip_network(1, 2, 0, 0, 16)
          [] subnet = "1.2.3.0/24"     -> ip_network(1, 2, 3, 0, 24)
          [] subnet = "128.0.0.0/1"    -> ip_network(128, 0, 0, 0, 1)
          [] subnet = "10.0.0.0/8"     -> ip_network(10, 0, 0, 0, 8)
          [] subnet = "192.168.1.0/24" -> ip_network(192, 168, 1, 0, 24)]

\* ipaddress.ip_address(ip), and ipaddress.ip_network(ip + '/32')
ip_address(ip) == AddressBits[ip]

\* ipaddress.ip_network(subnet) for the CIDR strings the model draws from
ParseNetwork(subnet) == NetworkBits[subnet]

(***************************************************************************)
(* generate_subnets_to_avoid                                               *)
(***************************************************************************)
MaxAvoidIps == 1
MaxAvoidSubnets == 2
AvoidIpChoices == {"1.2.3.4", "10.0.0.5"}
AvoidSubnetChoices == {"1.2.0.0/16", "1.2.3.0/24", "128.0.0.0/1", "10.0.0.0/8"}

SeqsUpTo(S, n) == UNION {[1..k -> S] : k \in 0..n}

public_ranges == <<
    ip_network(1, 0, 0, 0, 8),
    ip_network(2, 0, 0, 0, 7),
    ip_network(4, 0, 0, 0, 6),
    ip_network(8, 0, 0, 0, 7),
    ip_network(11, 0, 0, 0, 8),
    ip_network(12, 0, 0, 0, 6),
    ip_network(16, 0, 0, 0, 4),
    ip_network(32, 0, 0, 0, 3),
    ip_network(64, 0, 0, 0, 2),
    ip_network(128, 0, 0, 0, 2),
    ip_network(192, 0, 0, 0, 9),
    ip_network(208, 0, 0, 0, 4),
    ip_network(224, 0, 0, 0, 3) >>

\* addresses_to_exclude = ip_addresses_to_avoid + subnets_to_avoid, as networks
addresses_to_exclude ==
    [k \in 1..Len(ip_addresses_to_avoid) |-> ip_address(ip_addresses_to_avoid[k])]
    \o [k \in 1..Len(subnets_to_avoid) |-> ParseNetwork(subnets_to_avoid[k])]

\* one pass of "for current_range in current_ranges" building new_ranges
RECURSIVE NewRanges(_, _)
NewRanges(ranges, address_to_exclude) ==
    IF ranges = <<>> THEN <<>>
    ELSE ExcludeOrKeep(Head(ranges), address_to_exclude)
         \o NewRanges(Tail(ranges), address_to_exclude)

PlannerInit ==
    /\ ip_addresses_to_avoid \in SeqsUpTo(AvoidIpChoices, MaxAvoidIps)
    /\ subnets_to_avoid \in SeqsUpTo(AvoidSubnetChoices, MaxAvoidSubnets)
    /\ public_idx = 1
    /\ exclude_idx = 1
    /\ current_ranges = <<public_ranges[1]>>
    /\ subnets_to_use = <<>>

PlannerDone == public_idx > Len(public_ranges)

\* one iteration of "for address_to_exclude in addresses_to_exclude"
ExcludeOne ==
    /\ ~PlannerDone
    /\ exclude_idx <= Len(addresses_to_exclude)
    /\ current_ranges' = NewRanges(current_ranges, addresses_to_exclude[exclude_idx])
    /\ exclude_idx' = exclude_idx + 1
    /\ UNCHANGED <<ip_addresses_to_avoid, subnets_to_avoid, public_idx, subnets_to_use>>

\* subnets_to_use.extend(current_ranges), then the next public range
NextPublicRange ==
    /\ ~PlannerDone
    /\ exclude_idx > Len(addresses_to_exclude)
    /\ subnets_to_use' = subnets_to_use \o current_ranges
    /\ public_idx' = public_idx + 1
    /\ exclude_idx' = 1
    /\ current_ranges' = IF public_idx + 1 <= Len(public_ranges)
                         THEN <<public_ranges[public_idx + 1]>>
                         ELSE <<>>
    /\ UNCHANGED <<ip_addresses_to_avoid, subnets_to_avoid>>

\* the planner's variables when the planner is not the subject
PlannerIdle ==
    /\ ip_addresses_to_avoid = <<>>
    /\ subnets_to_avoid = <<>>
    /\ public_idx = Len(public_ranges) + 1
    /\ exclude_idx = 1
    /\ current_ranges = <<>>
    /\ subnets_to_use = <<>>

(***************************************************************************)
(* check_connection_attempts                                               *)
(***************************************************************************)
\* config["max_connection_attempts"], config["connection_attempt_period"]
max_connection_attempts == 2
connection_attempt_period == 1
MaxChecks == 6
MaxAdmTime == 2

\* config["trusted_sources"], config["trusted_subnets"]
trusted_sources == {"10.0.0.5"}
trusted_subnets == {"192.168.1.0/24"}
\* the peers that connect
PeerIPs == {"10.0.0.5", "192.168.1.7", "203.0.113.1", "198.51.100.2"}

\* ipaddress.ip_address(client_ip) in ipaddress.ip_network(subnet)
InNetwork(ip, subnet) == subnet_of(ip_address(ip), ParseNetwork(subnet))

\* the two early returns of check_connection_attempts
IsTrustedNoSubnets(ip) == ip \in trusted_sources
IsTrusted(ip) ==
    \/ ip \in trusted_sources
    \/ \E subnet \in trusted_subnets : InNetwork(ip, subnet)

Last(seq) == seq[Len(seq)]
Restrict(f, S) == [x \in S |-> f[x]]

\* "Remove expired connection attempts": the dict comprehension
RemoveExpiredByFirst(attempts, current_time) ==
    Restrict(attempts, {ip \in DOMAIN attempts :
        current_time - attempts[ip][1] <= connection_attempt_period})
RemoveExpired(attempts, current_time) ==
    Restrict(attempts, {ip \in DOMAIN attempts :
        current_time - Last(attempts[ip]) <= connection_attempt_period})

\* connection_attempts after "if client_ip not in ...: ... = []" and the append
Appended(attempts, ip, current_time) ==
    LET purged == RemoveExpired(attempts, current_time)
        listed == IF ip \in DOMAIN purged THEN purged[ip] ELSE <<>>
    IN  [k \in DOMAIN purged \cup {ip} |->
            IF k = ip THEN Append(listed, current_time) ELSE purged[k]]

\* len(connection_attempts[client_ip]) > config["max_connection_attempts"]
ExceedsLimitOffByOne(count) == count >= max_connection_attempts
ExceedsLimit(count) == count > max_connection_attempts

NoCheck == [ip |-> "none", t |-> 0, outcome |-> "none", requested |-> FALSE]
NoHistory ==
    [last_t |-> -1, last_outcome |-> "none", run_start |-> 0, run_count |-> 0,
     since_block |-> 0]

\* history: a call starts a new run of calls of its ip when the ip was never
\* checked, was last checked more than a period ago, or was blocked last time;
\* since_block counts the calls for the ip after its latest blocked call
History(ip, outcome) ==
    LET h == attempt_history[ip]
        fresh == \/ h.last_t = -1
                 \/ now - h.last_t > connection_attempt_period
                 \/ h.last_outcome = "blocked"
    IN  [attempt_history EXCEPT ![ip] =
            [last_t |-> now, last_outcome |-> outcome,
             run_start |-> IF fresh THEN now ELSE h.run_start,
             run_count |-> IF fresh THEN 1 ELSE h.run_count + 1,
             since_block |-> IF h.last_outcome = "blocked" THEN 1
                             ELSE h.since_block + 1]]

\* check_connection_attempts(client_ip), with current_time = now
CheckWithoutPop(ip) ==
    LET appended == Appended(connection_attempts, ip, now)
        blocked == ExceedsLimit(Len(appended[ip]))
        requested == blocked /\ config.enable_firewall_ip_blocking
        outcome == IF IsTrusted(ip) THEN "trusted"
                   ELSE IF blocked THEN "blocked" ELSE "allowed"
    IN  /\ IF IsTrusted(ip)
           THEN UNCHANGED <<connection_attempts, block_requests>>
           ELSE /\ connection_attempts' =
                      appended
                /\ block_requests' =
                      IF requested THEN Append(block_requests, ip)
                      ELSE block_requests
        /\ last_check' = [ip |-> ip, t |-> now, outcome |-> outcome,
                          requested |-> ~IsTrusted(ip) /\ requested]
        /\ attempt_history' = History(ip, outcome)
        /\ checks_done' = checks_done + 1

check_connection_attempts(ip) ==
    LET appended == Appended(connection_attempts, ip, now)
        blocked == ExceedsLimit(Len(appended[ip]))
        requested == blocked /\ config.enable_firewall_ip_blocking
        outcome == IF IsTrusted(ip) THEN "trusted"
                   ELSE IF blocked THEN "blocked" ELSE "allowed"
    IN  /\ IF IsTrusted(ip)
           THEN UNCHANGED <<connection_attempts, block_requests>>
           ELSE /\ connection_attempts' =
                      IF blocked
                      THEN Restrict(appended, DOMAIN appended \ {ip})
                      ELSE appended
                /\ block_requests' =
                      IF requested THEN Append(block_requests, ip)
                      ELSE block_requests
        /\ last_check' = [ip |-> ip, t |-> now, outcome |-> outcome,
                          requested |-> ~IsTrusted(ip) /\ requested]
        /\ attempt_history' = History(ip, outcome)
        /\ checks_done' = checks_done + 1

AdmissionInit ==
    /\ connection_attempts = <<>>
    /\ block_requests = <<>>
    /\ last_check = NoCheck
    /\ attempt_history = [ip \in PeerIPs |-> NoHistory]
    /\ checks_done = 0

\* a connection attempt is checked
Check ==
    /\ checks_done < MaxChecks
    /\ \E ip \in PeerIPs : check_connection_attempts(ip)
    /\ UNCHANGED <<config, now, plVars, otherVars, sessVars>>

\* a second passes
AdmTick ==
    /\ now < MaxAdmTime
    /\ now' = now + 1
    /\ UNCHANGED <<config, admVars, plVars, otherVars, sessVars>>

(***************************************************************************)
(* client_handler: one connection, its engine, its client and its tasks    *)
(***************************************************************************)
MAX_CONNECTIONS == 2
InactivityPeriod == 60
InactivityLimit == 900
HeartbeatInterval == 300
MaxClientLines == 1
MaxEngineLines == 2
TimeStep == 60
MaxTime == 1020

\* the peers that connect in the session specification
SessionPeers == {"10.0.0.5", "203.0.113.1"}

\* ENGINES[engine_name]["custom_variables"] and CUSTOM_VARIABLES, as drawn
EngineCustomChoices == {<<>>, "Hash" :> "128", "Hash" :> "override"}
GlobalCustomChoices == {<<>>, "Hash" :> "64"}

\* client lines as received, without the final newline: the parts between
\* spaces, a carriage return at either end being a part of its own
ClientLines == {
    <<"isready">>,
    <<"isready", "<CR>">>,
    <<"setoption", "name", "Hash", "value", "999">>,
    <<"setoption", "name", "Clear", "Hash", "value", "1">> }

\* str.strip(): leading and trailing whitespace removed
Whitespace == {"<CR>"}
RECURSIVE StripLeft(_)
StripLeft(line) ==
    IF line # <<>> /\ Head(line) \in Whitespace THEN StripLeft(Tail(line)) ELSE line
RECURSIVE StripRight(_)
StripRight(line) ==
    IF line # <<>> /\ line[Len(line)] \in Whitespace
    THEN StripRight(SubSeq(line, 1, Len(line) - 1))
    ELSE line
Strip(line) == StripRight(StripLeft(line))

\* engine lines
EngineLines == {"uciok", "readyok"}
\* "uciok" in decoded_data
ContainsUciok(decoded_data) == decoded_data = "uciok"

Min(a, b) == IF a <= b THEN a ELSE b

NoTask == [state |-> "none", wake |-> 0]
Sleeping(task) == task.state = "sleeping"
\* task.cancel()
Cancel(task) == IF Sleeping(task) THEN [state |-> "cancelled", wake |-> 0] ELSE task

\* the client stream cannot be written: drain() raises ConnectionResetError
ClientWriteFails == writer = "closed" \/ client = "lost"

\* process_command(command): the write reaches the engine's stdin while the
\* engine runs; otherwise the exception is caught and logged
process_command(writes, source, command, running) ==
    Append(writes, [src |-> source, line |-> command, ok |-> running])

\* f"setoption name {option_name} value {option_value}"
SetOption(option_name, option_value) ==
    <<"setoption", "name", option_name, "value", option_value>>

\* the handshake's "for option_name, option_value in ....items()"
RECURSIVE PushOptions(_, _, _)
PushOptions(writes, custom, names) ==
    IF names = {} THEN writes
    ELSE LET n == CHOOSE x \in names : TRUE
         IN  PushOptions(process_command(writes, "proxy", SetOption(n, custom[n]), TRUE),
                         custom, names \ {n})

\* the command process_client_commands hands to process_command
ForwardedGlobalFirst(command) ==
    IF /\ Len(command) >= 5
       /\ command[1] = "setoption" /\ command[2] = "name" /\ command[4] = "value"
    THEN LET option_name == command[3]
         IN  IF option_name \in DOMAIN config.custom_variables
             THEN SetOption(option_name, config.custom_variables[option_name])
             ELSE IF option_name \in DOMAIN config.engine_custom_variables
             THEN IF config.engine_custom_variables[option_name] = "override"
                  THEN command
                  ELSE SetOption(option_name, config.engine_custom_variables[option_name])
             ELSE command
    ELSE command
Forwarded(command) ==
    IF /\ Len(command) >= 2 /\ command[1] = "setoption" /\ command[2] = "name"
       /\ Len(command) >= 5 /\ command[2] = "name" /\ command[4] = "value"
    THEN LET option_name == command[3]
         IN  IF option_name \in DOMAIN config.engine_custom_variables
             THEN IF config.engine_custom_variables[option_name] = "override"
                  THEN command
                  ELSE SetOption(option_name, config.engine_custom_variables[option_name])
             ELSE IF option_name \in DOMAIN config.custom_variables
             THEN SetOption(option_name, config.custom_variables[option_name])
             ELSE command
    ELSE command

NoForward == [raw |-> <<>>, command |-> <<>>, written |-> <<>>]

SessionInit ==
    /\ client_ip \in SessionPeers
    /\ pc = "accepted"
    /\ permits = MAX_CONNECTIONS
    /\ last_activity_time = 0
    /\ inactivity_task = NoTask
    /\ heartbeat_task = NoTask
    /\ writer = "open"
    /\ client = "open"
    /\ client_buf = <<>>
    /\ client_sent = 0
    /\ engine_process = "none"
    /\ engine_eof = FALSE
    /\ engine_out = <<>>
    /\ engine_emitted = 0
    /\ engine_said_uciok = FALSE
    /\ engine_writes = <<>>
    /\ to_client = [lines |-> 0, pings |-> 0]
    /\ cpump = "idle"
    /\ epump = "idle"
    /\ last_line_time = 0
    /\ last_forward = NoForward
    /\ inactivity_closed_idle = -1
    /\ returned_at = -1

\* the session's variables when the session is not the subject
SessionIdle ==
    /\ client_ip = "10.0.0.5"
    /\ pc = "done"
    /\ permits = MAX_CONNECTIONS
    /\ last_activity_time = 0
    /\ inactivity_task = NoTask
    /\ heartbeat_task = NoTask
    /\ writer = "closed"
    /\ client = "lost"
    /\ client_buf = <<>>
    /\ client_sent = 0
    /\ engine_process = "none"
    /\ engine_eof = FALSE
    /\ engine_out = <<>>
    /\ engine_emitted = 0
    /\ engine_said_uciok = FALSE
    /\ engine_writes = <<>>
    /\ to_client = [lines |-> 0, pings |-> 0]
    /\ cpump = "idle"
    /\ epump = "idle"
    /\ last_line_time = 0
    /\ last_forward = NoForward
    /\ inactivity_closed_idle = -1
    /\ returned_at = -1

ConfigChoices ==
    [enable_trusted_sources : BOOLEAN,
     enable_firewall_ip_blocking : {TRUE},
     enable_firewall_rules : {TRUE},
     enable_firewall_subnet_blocking : {TRUE},
     engine_custom_variables : EngineCustomChoices,
     custom_variables : GlobalCustomChoices]

\* ---- client_handler up to "async with sem"
\* the first check (only when enable_trusted_sources) rejects an untrusted
\* peer after counting the attempt; otherwise last_activity_time is set, the
\* inactivity task is created and the second, unconditional check rejects an
\* untrusted peer
AcceptUncounted ==
    /\ pc = "accepted"
    /\ IF config.enable_trusted_sources /\ ~IsTrusted(client_ip)
       THEN /\ UNCHANGED admVars
            /\ writer' = "closed"
            /\ pc' = "done"
            /\ UNCHANGED <<last_activity_time, inactivity_task, last_line_time>>
       ELSE /\ last_activity_time' = now
            /\ last_line_time' = now
            /\ inactivity_task' = [state |-> "sleeping", wake |-> now + InactivityPeriod]
            /\ IF ~IsTrusted(client_ip)
               THEN writer' = "closed" /\ pc' = "done"
               ELSE writer' = writer /\ pc' = "acquire"
            /\ UNCHANGED admVars
    /\ returned_at' = IF IsTrusted(client_ip) THEN returned_at ELSE now
    /\ UNCHANGED <<client_ip, permits, engine_writes, to_client, cpump, epump,
                   last_forward, inactivity_closed_idle, heartbeat_task,
                   clientVars, engineVars>>
    /\ UNCHANGED <<plVars, otherVars, config, now>>

Accept ==
    /\ pc = "accepted"
    /\ IF config.enable_trusted_sources /\ ~IsTrusted(client_ip)
       THEN /\ check_connection_attempts(client_ip)
            /\ writer' = "closed"
            /\ pc' = "done"
            /\ UNCHANGED <<last_activity_time, inactivity_task, last_line_time>>
       ELSE /\ last_activity_time' = now
            /\ last_line_time' = now
            /\ inactivity_task' = [state |-> "sleeping", wake |-> now + InactivityPeriod]
            /\ IF ~IsTrusted(client_ip)
               THEN writer' = "closed" /\ pc' = "done"
               ELSE writer' = writer /\ pc' = "acquire"
            /\ UNCHANGED admVars
    /\ returned_at' = IF IsTrusted(client_ip) THEN returned_at ELSE now
    /\ UNCHANGED <<client_ip, permits, engine_writes, to_client, cpump, epump,
                   last_forward, inactivity_closed_idle, heartbeat_task,
                   clientVars, engineVars>>
    /\ UNCHANGED <<plVars, otherVars, config, now>>

\* async with sem: entered
Acquire ==
    /\ pc = "acquire"
    /\ permits > 0
    /\ permits' = permits - 1
    /\ pc' = "spawn"
    /\ UNCHANGED <<client_ip, last_activity_time, writer, engine_writes, to_client,
                   cpump, epump, last_line_time, last_forward, inactivity_closed_idle, returned_at>>
    /\ UNCHANGED <<taskVars, clientVars, engineVars, plVars, otherVars, config, now, admVars>>

\* create_subprocess_exec succeeds; the heartbeat task is created and
\* process_uci_command writes "uci" and every engine custom variable
SpawnAndSend ==
    /\ pc = "spawn"
    /\ engine_process' = "running"
    /\ heartbeat_task' = [state |-> "sleeping", wake |-> now]
    /\ engine_writes' =
          LET custom == config.engine_custom_variables
          IN  PushOptions(process_command(engine_writes, "proxy", <<"uci">>, TRUE),
                          custom, DOMAIN custom)
    /\ pc' = "handshake"
    /\ UNCHANGED <<client_ip, permits, last_activity_time, writer, to_client, cpump,
                   epump, last_line_time, last_forward, inactivity_closed_idle, returned_at,
                   inactivity_task>>
    /\ UNCHANGED <<engine_eof, engine_out, engine_emitted, engine_said_uciok>>
    /\ UNCHANGED <<clientVars, plVars, otherVars, config, now, admVars>>

\* create_subprocess_exec raises: "except Exception" logs, the finally block
\* cancels the inactivity task and then raises UnboundLocalError at
\* heartbeat_task, which leaves "async with sem" and the handler
SpawnFails ==
    /\ pc = "spawn"
    /\ inactivity_task' = Cancel(inactivity_task)
    /\ permits' = permits + 1
    /\ pc' = "raised"
    /\ returned_at' = now
    /\ UNCHANGED <<client_ip, last_activity_time, writer, engine_writes, to_client,
                   cpump, epump, last_line_time, last_forward, inactivity_closed_idle,
                   heartbeat_task>>
    /\ UNCHANGED <<clientVars, engineVars, plVars, otherVars, config, now, admVars>>

\* ---- process_uci_command: the loop relaying engine lines until "uciok"
\* a line: relayed to the client (a failed drain raises, which the handler
\* catches and goes to its finally block); "uciok" ends the handshake
HandshakeLine ==
    /\ pc = "handshake"
    /\ engine_out # <<>>
    /\ engine_out' = Tail(engine_out)
    /\ last_line_time' = now
    /\ IF ClientWriteFails
       THEN /\ pc' = "finally"
            /\ UNCHANGED <<to_client, cpump, epump>>
       ELSE /\ to_client' = [to_client EXCEPT !.lines = @ + 1]
            /\ IF ContainsUciok(Head(engine_out))
               THEN pc' = "pumps" /\ cpump' = "reading" /\ epump' = "reading"
               ELSE UNCHANGED <<pc, cpump, epump>>
    /\ UNCHANGED <<client_ip, permits, last_activity_time, writer, engine_writes,
                   last_forward, inactivity_closed_idle, returned_at>>
    /\ UNCHANGED <<engine_process, engine_eof, engine_emitted, engine_said_uciok>>
    /\ UNCHANGED <<taskVars, clientVars, plVars, otherVars, config, now, admVars>>

\* "if not data: break": end of file ends the handshake as "uciok" does
HandshakeEof ==
    /\ pc = "handshake"
    /\ engine_out = <<>>
    /\ engine_eof
    /\ pc' = "pumps"
    /\ cpump' = "reading"
    /\ epump' = "reading"
    /\ UNCHANGED <<client_ip, permits, last_activity_time, writer, engine_writes,
                   to_client, last_line_time, last_forward, inactivity_closed_idle, returned_at>>
    /\ UNCHANGED <<taskVars, clientVars, engineVars, plVars, otherVars, config, now, admVars>>

\* ---- process_client_commands
ClientReadable == client = "lost" \/ client_buf # <<>> \/ client = "eof" \/ writer = "closed"

ClientPump ==
    /\ cpump = "reading"
    /\ ClientReadable
    /\ IF client = "lost"
       THEN \* reader.readline() raises the connection's exception
            /\ cpump' = "raised"
            /\ UNCHANGED <<client_buf, engine_writes, last_forward, last_line_time>>
       ELSE IF client_buf # <<>>
       THEN LET command == Strip(Head(client_buf)) IN
            /\ client_buf' = Tail(client_buf)
            /\ IF command # <<>>
               THEN /\ engine_writes' =
                          process_command(engine_writes, "client", Forwarded(command),
                                          engine_process = "running")
                    /\ last_forward' = [raw |-> Head(client_buf), command |-> command,
                                        written |-> Forwarded(command)]
               ELSE UNCHANGED <<engine_writes, last_forward>>
            /\ last_line_time' = now
            /\ UNCHANGED cpump
       ELSE \* "if not data: break"
            /\ cpump' = "done"
            /\ UNCHANGED <<client_buf, engine_writes, last_forward, last_line_time>>
    /\ UNCHANGED <<client_ip, pc, permits, last_activity_time, writer, to_client, epump,
                   inactivity_closed_idle, returned_at, client, client_sent>>
    /\ UNCHANGED <<taskVars, engineVars, plVars, otherVars, config, now, admVars>>

\* ---- process_engine_responses
EngineReadable == engine_out # <<>> \/ engine_eof

EnginePump ==
    /\ epump = "reading"
    /\ EngineReadable
    /\ IF engine_out # <<>>
       THEN /\ engine_out' = Tail(engine_out)
            /\ last_line_time' = now
            /\ IF ClientWriteFails
               THEN epump' = "raised" /\ UNCHANGED to_client
               ELSE to_client' = [to_client EXCEPT !.lines = @ + 1] /\ UNCHANGED epump
       ELSE /\ epump' = "done"
            /\ UNCHANGED <<engine_out, last_line_time, to_client>>
    /\ UNCHANGED <<client_ip, pc, permits, last_activity_time, writer, engine_writes,
                   cpump, last_forward, inactivity_closed_idle, returned_at>>
    /\ UNCHANGED <<engine_process, engine_eof, engine_emitted, engine_said_uciok>>
    /\ UNCHANGED <<taskVars, clientVars, plVars, otherVars, config, now, admVars>>

\* ---- asyncio.gather returns or raises, then the finally block
GatherOver == (cpump = "done" /\ epump = "done") \/ cpump = "raised" \/ epump = "raised"
TeardownReady == pc = "finally" \/ (pc = "pumps" /\ GatherOver)

\* both tasks cancelled, the engine terminated and awaited, the writer
\* closed, the permit released on leaving "async with sem"
Teardown ==
    /\ TeardownReady
    /\ inactivity_task' = Cancel(inactivity_task)
    /\ heartbeat_task' = Cancel(heartbeat_task)
    /\ engine_process' = "exited"
    /\ engine_eof' = TRUE
    /\ writer' = "closed"
    /\ permits' = permits + 1
    /\ pc' = "done"
    /\ returned_at' = now
    /\ UNCHANGED <<client_ip, last_activity_time, engine_writes, to_client, cpump, epump,
                   last_line_time, last_forward, inactivity_closed_idle>>
    /\ UNCHANGED <<engine_out, engine_emitted, engine_said_uciok>>
    /\ UNCHANGED <<clientVars, plVars, otherVars, config, now, admVars>>

\* ---- check_inactivity: one turn of its loop after sleep(60)
InactivityDue == Sleeping(inactivity_task) /\ inactivity_task.wake = now

InactivityWake ==
    /\ InactivityDue
    /\ IF now - last_activity_time > InactivityLimit
       THEN /\ writer' = "closed"
            /\ inactivity_task' = [state |-> "returned", wake |-> 0]
            /\ inactivity_closed_idle' = now - last_line_time
       ELSE /\ inactivity_task' = [inactivity_task EXCEPT !.wake = now + InactivityPeriod]
            /\ UNCHANGED <<writer, inactivity_closed_idle>>
    /\ UNCHANGED returned_at
    /\ UNCHANGED <<client_ip, pc, permits, last_activity_time, engine_writes, to_client,
                   cpump, epump, last_line_time, last_forward, heartbeat_task>>
    /\ UNCHANGED <<clientVars, engineVars, plVars, otherVars, config, now, admVars>>

\* ---- heartbeat: one turn of its loop
HeartbeatDue == Sleeping(heartbeat_task) /\ heartbeat_task.wake = now

HeartbeatWake ==
    /\ HeartbeatDue
    /\ IF ClientWriteFails
       THEN /\ heartbeat_task' = [state |-> "returned", wake |-> 0]
            /\ UNCHANGED to_client
       ELSE /\ to_client' = [to_client EXCEPT !.pings = @ + 1]
            /\ heartbeat_task' = [heartbeat_task EXCEPT !.wake = now + HeartbeatInterval]
    /\ UNCHANGED <<client_ip, pc, permits, last_activity_time, writer, engine_writes,
                   cpump, epump, last_line_time, last_forward, inactivity_closed_idle, returned_at,
                   inactivity_task>>
    /\ UNCHANGED <<clientVars, engineVars, plVars, otherVars, config, now, admVars>>

\* ---- the client and the engine act at these times after the connection
EventTimes == {0, 960}

\* ---- the client
SessionRunning == pc \in {"acquire", "spawn", "handshake", "pumps", "finally"}

ClientSend ==
    /\ now \in EventTimes
    /\ client = "open" /\ writer = "open" /\ SessionRunning
    /\ client_sent < MaxClientLines
    /\ \E line \in ClientLines : client_buf' = Append(client_buf, line)
    /\ client_sent' = client_sent + 1
    /\ UNCHANGED <<client, handlerVars, taskVars, engineVars, plVars, otherVars, config, now, admVars>>

\* the client shuts its side down: readline returns b'' once the buffer is drained
ClientEof ==
    /\ now \in EventTimes
    /\ client = "open" /\ writer = "open" /\ SessionRunning
    /\ client' = "eof"
    /\ UNCHANGED <<client_buf, client_sent, handlerVars, taskVars, engineVars, plVars, otherVars,
                   config, now, admVars>>

\* the connection is reset
ClientReset ==
    /\ now \in EventTimes
    /\ client \in {"open", "eof"} /\ writer = "open" /\ SessionRunning
    /\ client' = "lost"
    /\ UNCHANGED <<client_buf, client_sent, handlerVars, taskVars, engineVars, plVars, otherVars,
                   config, now, admVars>>

\* ---- the engine
EngineEmit ==
    /\ now \in EventTimes
    /\ engine_process = "running" /\ ~engine_eof
    /\ engine_emitted < MaxEngineLines
    /\ \E line \in EngineLines :
          /\ engine_out' = Append(engine_out, line)
          /\ engine_said_uciok' = (engine_said_uciok \/ ContainsUciok(line))
    /\ engine_emitted' = engine_emitted + 1
    /\ UNCHANGED <<engine_process, engine_eof, handlerVars, taskVars, clientVars, plVars, otherVars,
                   config, now, admVars>>

\* the engine closes its stdout and keeps running
EngineCloseStdout ==
    /\ now \in EventTimes
    /\ engine_process = "running" /\ ~engine_eof
    /\ engine_eof' = TRUE
    /\ UNCHANGED <<engine_process, engine_out, engine_emitted, engine_said_uciok,
                   handlerVars, taskVars, clientVars, plVars, otherVars, config, now, admVars>>

\* the engine exits by itself
EngineExit ==
    /\ now \in EventTimes
    /\ engine_process = "running"
    /\ engine_process' = "exited"
    /\ engine_eof' = TRUE
    /\ UNCHANGED <<engine_out, engine_emitted, engine_said_uciok,
                   handlerVars, taskVars, clientVars, plVars, otherVars, config, now, admVars>>

\* ---- time: it passes only when the event loop has nothing ready to run,
\* and never beyond the next timer
LoopReady ==
    \/ pc \in {"accepted", "spawn"}
    \/ pc = "acquire" /\ permits > 0
    \/ pc = "handshake" /\ EngineReadable
    \/ cpump = "reading" /\ ClientReadable
    \/ epump = "reading" /\ EngineReadable
    \/ TeardownReady
    \/ InactivityDue
    \/ HeartbeatDue

NextWake ==
    LET a == IF Sleeping(inactivity_task) THEN inactivity_task.wake ELSE now + TimeStep
        b == IF Sleeping(heartbeat_task) THEN heartbeat_task.wake ELSE now + TimeStep
    IN  Min(now + TimeStep, Min(a, b))

Tick ==
    /\ ~LoopReady
    /\ NextWake <= MaxTime
    /\ now' = NextWake
    /\ UNCHANGED <<sessVars, plVars, otherVars, config, admVars>>

\* what the event loop does by itself
LoopStep ==
    \/ Accept
    \/ Acquire
    \/ SpawnAndSend
    \/ SpawnFails
    \/ HandshakeLine
    \/ HandshakeEof
    \/ ClientPump
    \/ EnginePump
    \/ Teardown
    \/ InactivityWake
    \/ HeartbeatWake

(***************************************************************************)
(* Several connections, from any listener, sharing the semaphore           *)
(***************************************************************************)
MaxConns == 3
ConnIds == 1..MaxConns

\* connections inside "async with sem"
Holders == {c \in ConnIds : conn_pc[c] \in {"spawn", "serving", "finally"}}
\* engine children that are alive
LiveEngines == {c \in ConnIds : conn_engine[c] = "running"}

PoolInit ==
    /\ sem = MAX_CONNECTIONS
    /\ conn_pc = [c \in ConnIds |-> "idle"]
    /\ conn_engine = [c \in ConnIds |-> "none"]

\* the pool's variables when the pool is not the subject
PoolIdle == PoolInit

\* a listener accepts a connection of a trusted peer: its handler runs up to
\* "async with sem"
ConnArrive(c) ==
    /\ conn_pc[c] = "idle"
    /\ conn_pc' = [conn_pc EXCEPT ![c] = "waiting"]
    /\ conn_engine' = [conn_engine EXCEPT ![c] = "none"]
    /\ UNCHANGED sem

\* async with sem: sem.acquire() returns
ConnAcquireNoWait(c) ==
    /\ conn_pc[c] = "waiting"
    /\ sem' = sem - 1
    /\ conn_pc' = [conn_pc EXCEPT ![c] = "spawn"]
    /\ UNCHANGED conn_engine
ConnAcquire(c) ==
    /\ conn_pc[c] = "waiting"
    /\ sem > 0
    /\ sem' = sem - 1
    /\ conn_pc' = [conn_pc EXCEPT ![c] = "spawn"]
    /\ UNCHANGED conn_engine

\* create_subprocess_exec returns the child
ConnSpawn(c) ==
    /\ conn_pc[c] = "spawn"
    /\ conn_engine' = [conn_engine EXCEPT ![c] = "running"]
    /\ conn_pc' = [conn_pc EXCEPT ![c] = "serving"]
    /\ UNCHANGED sem

\* create_subprocess_exec raises: the handler leaves "async with sem" by the
\* exception of its finally block
ConnSpawnFails(c) ==
    /\ conn_pc[c] = "spawn"
    /\ sem' = sem + 1
    /\ conn_pc' = [conn_pc EXCEPT ![c] = "raised"]
    /\ UNCHANGED conn_engine

\* the engine exits by itself while the session serves
ConnEngineExit(c) ==
    /\ conn_pc[c] = "serving"
    /\ conn_engine[c] = "running"
    /\ conn_engine' = [conn_engine EXCEPT ![c] = "exited"]
    /\ UNCHANGED <<sem, conn_pc>>

\* the handshake or the pumps end, by return or by exception
ConnEnds(c) ==
    /\ conn_pc[c] = "serving"
    /\ conn_pc' = [conn_pc EXCEPT ![c] = "finally"]
    /\ UNCHANGED <<sem, conn_engine>>

\* the finally block: the engine is terminated and awaited, then the handler
\* leaves "async with sem"
ConnTeardown(c) ==
    /\ conn_pc[c] = "finally"
    /\ conn_engine' = [conn_engine EXCEPT ![c] = "exited"]
    /\ sem' = sem + 1
    /\ conn_pc' = [conn_pc EXCEPT ![c] = "done"]

\* the handler has returned; the next connection takes its place
ConnGone(c) ==
    /\ conn_pc[c] \in {"done", "raised"}
    /\ conn_pc' = [conn_pc EXCEPT ![c] = "idle"]
    /\ conn_engine' = [conn_engine EXCEPT ![c] = "none"]
    /\ UNCHANGED sem

(***************************************************************************)
(* main, start_server and asyncio.run                                      *)
(***************************************************************************)
\* "retries = 5" and "await asyncio.sleep(5)" of start_server
InitialRetries == 5
RetrySleep == 5

\* the keys of ENGINES
EngineNames == {"stockfish", "lc0"}

\* how one subprocess.run of netsh ends: return code 0, return code not 0,
\* or OSError because the program cannot be run
CommandOutcomes == {"ok", "nonzero", "cannot_run"}

NoListener ==
    [state |-> "none", retries |-> InitialRetries, attempts |-> 0, failures |-> 0,
     remaining |-> 0, slept |-> 0, gap |-> -1, cancel |-> FALSE]
NoSession == [handler |-> "none", engine |-> "none", socket |-> "none", listener |-> "none"]

ListenerOver(e) == listeners[e].state \in {"exhausted", "cancelled"}
SessionOn(e) == active_session.handler = "running" /\ active_session.listener = e

SupervisorInit ==
    /\ main_pc = "configure_firewall"
    /\ shutdown_event = FALSE
    /\ listeners = [e \in EngineNames |-> NoListener]
    /\ watchdog_task = "none"
    /\ active_session = NoSession
    /\ wait_closed_waits \in BOOLEAN
    /\ firewall_failure = "no"
    /\ active_at_signal = FALSE

\* the supervisor's variables when the supervisor is not the subject
SupervisorIdle ==
    /\ main_pc = "configure_firewall"
    /\ shutdown_event = FALSE
    /\ listeners = [e \in EngineNames |-> NoListener]
    /\ watchdog_task = "none"
    /\ active_session = NoSession
    /\ wait_closed_waits = FALSE
    /\ firewall_failure = "no"
    /\ active_at_signal = FALSE

\* await configure_firewall(config): nothing runs unless both flags are set;
\* otherwise the delete command and then the add command run, a non-zero
\* return code is logged, and an OSError of subprocess.run leaves main
MainConfigureFirewall ==
    /\ main_pc = "configure_firewall"
    /\ IF config.enable_firewall_rules /\ config.enable_firewall_subnet_blocking
       THEN \E process_delete \in CommandOutcomes, process_block \in CommandOutcomes :
               IF process_delete = "cannot_run" \/ process_block = "cannot_run"
               THEN /\ main_pc' = "raised"
                    /\ firewall_failure' = "cannot_run"
               ELSE /\ main_pc' = "create_tasks"
                    /\ firewall_failure' =
                          IF process_delete = "nonzero" \/ process_block = "nonzero"
                          THEN "nonzero" ELSE "no"
       ELSE /\ main_pc' = "create_tasks"
            /\ UNCHANGED firewall_failure
    /\ UNCHANGED <<shutdown_event, listeners, watchdog_task, active_session,
                   wait_closed_waits, active_at_signal, now>>

\* one start_server task per engine and the watchdog are created, the signal
\* handlers are installed and main waits for shutdown_event
MainCreateTasks ==
    /\ main_pc = "create_tasks"
    /\ listeners' = [e \in EngineNames |-> [listeners[e] EXCEPT !.state = "starting"]]
    /\ watchdog_task' = "running"
    /\ main_pc' = "waiting"
    /\ UNCHANGED <<shutdown_event, active_session, wait_closed_waits, firewall_failure,
                   active_at_signal, now>>

\* "except Exception": a retry is consumed, then the sleep or the exit
FailedNoSleep(l) ==
    [l EXCEPT !.retries = @ - 1, !.failures = @ + 1, !.slept = 0,
              !.state = IF l.retries - 1 > 0 THEN "starting" ELSE "exhausted"]
Failed(l) ==
    [l EXCEPT !.retries = @ - 1, !.failures = @ + 1, !.slept = 0,
              !.remaining = IF l.retries - 1 > 0 THEN RetrySleep ELSE 0,
              !.state = IF l.retries - 1 > 0 THEN "sleeping" ELSE "exhausted"]

\* await asyncio.start_server(...): it binds and serve_forever starts, or raises
ListenerStart(e) ==
    /\ listeners[e].state = "starting"
    /\ ~listeners[e].cancel
    /\ LET l == [listeners[e] EXCEPT
                    !.attempts = @ + 1,
                    !.gap = IF listeners[e].failures > 0 THEN listeners[e].slept ELSE @]
       IN  \/ listeners' = [listeners EXCEPT ![e] = [l EXCEPT !.state = "serving"]]
           \/ listeners' = [listeners EXCEPT ![e] = Failed(l)]
    /\ UNCHANGED <<main_pc, shutdown_event, watchdog_task, active_session,
                   wait_closed_waits, firewall_failure, active_at_signal, now>>

\* serve_forever raises while no connection of this listener is open
ListenerServeFails(e) ==
    /\ listeners[e].state = "serving"
    /\ ~listeners[e].cancel
    /\ ~SessionOn(e)
    /\ listeners' = [listeners EXCEPT ![e] = Failed(listeners[e])]
    /\ UNCHANGED <<main_pc, shutdown_event, watchdog_task, active_session,
                   wait_closed_waits, firewall_failure, active_at_signal, now>>

\* asyncio.sleep(5) is over
ListenerWake(e) ==
    /\ listeners[e].state = "sleeping"
    /\ ~listeners[e].cancel
    /\ listeners[e].remaining = 0
    /\ listeners' = [listeners EXCEPT ![e].state = "starting"]
    /\ UNCHANGED <<main_pc, shutdown_event, watchdog_task, active_session,
                   wait_closed_waits, firewall_failure, active_at_signal, now>>

\* CancelledError reaches the task: while binding or sleeping it ends the
\* task; in serve_forever the server is closed and wait_closed() is awaited
ListenerCancelled(e) ==
    /\ listeners[e].cancel
    /\ listeners[e].state \in {"starting", "sleeping", "serving"}
    /\ listeners' = [listeners EXCEPT ![e].state =
                        IF listeners[e].state = "serving" THEN "closing" ELSE "cancelled"]
    /\ UNCHANGED <<main_pc, shutdown_event, watchdog_task, active_session,
                   wait_closed_waits, firewall_failure, active_at_signal, now>>

\* wait_closed() returns and "except asyncio.CancelledError" breaks the loop
ListenerClosed(e) ==
    /\ listeners[e].state = "closing"
    /\ wait_closed_waits => ~SessionOn(e)
    /\ listeners' = [listeners EXCEPT ![e].state = "cancelled"]
    /\ UNCHANGED <<main_pc, shutdown_event, watchdog_task, active_session,
                   wait_closed_waits, firewall_failure, active_at_signal, now>>

\* SIGINT or SIGTERM: signal_handler sets the event
Signal ==
    /\ main_pc = "waiting"
    /\ ~shutdown_event
    /\ shutdown_event' = TRUE
    /\ active_at_signal' = (active_session.handler = "running")
    /\ UNCHANGED <<main_pc, listeners, watchdog_task, active_session, wait_closed_waits,
                   firewall_failure, now>>

\* shutdown_event.wait() returns: every start_server task and the watchdog
\* are cancelled and main awaits them
MainShutdown ==
    /\ main_pc = "waiting"
    /\ shutdown_event
    /\ listeners' = [e \in EngineNames |->
                        IF ListenerOver(e) THEN listeners[e]
                        ELSE [listeners[e] EXCEPT !.cancel = TRUE]]
    /\ watchdog_task' = "cancelled"
    /\ main_pc' = "gathering"
    /\ UNCHANGED <<shutdown_event, active_session, wait_closed_waits, firewall_failure,
                   active_at_signal, now>>

\* asyncio.gather(*tasks, return_exceptions=True) returns and main returns
MainReturns ==
    /\ main_pc = "gathering"
    /\ \A e \in EngineNames : ListenerOver(e)
    /\ main_pc' = "returned"
    /\ UNCHANGED <<shutdown_event, listeners, watchdog_task, active_session,
                   wait_closed_waits, firewall_failure, active_at_signal, now>>

\* asyncio.run, after main has returned, cancels the tasks still pending: the
\* handler's finally block terminates the engine and closes the writer
RunCleanup ==
    /\ main_pc = "returned"
    /\ active_session.handler = "running"
    /\ active_session' = [active_session EXCEPT
                             !.handler = "done", !.engine = "exited", !.socket = "closed"]
    /\ UNCHANGED <<main_pc, shutdown_event, listeners, watchdog_task, wait_closed_waits,
                   firewall_failure, active_at_signal, now>>

\* a serving listener accepts a connection and its handler spawns the engine
SessionOpen(e) ==
    /\ listeners[e].state = "serving"
    /\ active_session.handler = "none"
    /\ active_session' = [handler |-> "running", engine |-> "running",
                          socket |-> "open", listener |-> e]
    /\ UNCHANGED <<main_pc, shutdown_event, listeners, watchdog_task, wait_closed_waits,
                   firewall_failure, active_at_signal, now>>

\* the session ends by itself and its handler returns
SessionEnds ==
    /\ active_session.handler = "running"
    /\ active_session' = [active_session EXCEPT
                             !.handler = "done", !.engine = "exited", !.socket = "closed"]
    /\ UNCHANGED <<main_pc, shutdown_event, listeners, watchdog_task, wait_closed_waits,
                   firewall_failure, active_at_signal, now>>

\* time passes up to the earliest end of a sleep
SleepingListeners == {e \in EngineNames : listeners[e].state = "sleeping"}
SupTick ==
    /\ SleepingListeners # {}
    /\ \A e \in SleepingListeners : listeners[e].remaining > 0
    /\ \E e \in SleepingListeners :
          /\ \A f \in SleepingListeners : listeners[e].remaining <= listeners[f].remaining
          /\ listeners' = [f \in EngineNames |->
                IF f \in SleepingListeners
                THEN [listeners[f] EXCEPT !.remaining = @ - listeners[e].remaining,
                                          !.slept = @ + listeners[e].remaining]
                ELSE listeners[f]]
    /\ UNCHANGED <<main_pc, shutdown_event, watchdog_task, active_session,
                   wait_closed_waits, firewall_failure, active_at_signal, now>>

\* what the event loop does by itself
SupervisorStep ==
    \/ MainConfigureFirewall
    \/ MainCreateTasks
    \/ MainShutdown
    \/ MainReturns
    \/ RunCleanup
    \/ SupTick
    \/ \E e \in EngineNames :
          ListenerStart(e) \/ ListenerWake(e) \/ ListenerCancelled(e) \/ ListenerClosed(e)

(***************************************************************************)
(* block_ip_address and the Chess-Block-IPs rule                           *)
(* A remoteip string is the sequence of its parts: addresses and ",".      *)
(***************************************************************************)
\* the addresses block_ip_address is called for
BlockIps == {"1.2.3.4", "8.8.8.8", "9.9.9.9", "10.0.0.5", "203.0.113.1"}

\* ipaddress.ip_address(ip).is_global: outside the networks the ipaddress
\* module lists as private, and outside the shared address space
NotGlobalNetworks == {
    ip_network(0, 0, 0, 0, 8),
    ip_network(10, 0, 0, 0, 8),
    ip_network(100, 64, 0, 0, 10),
    ip_network(127, 0, 0, 0, 8),
    ip_network(169, 254, 0, 0, 16),
    ip_network(172, 16, 0, 0, 12),
    ip_network(192, 0, 0, 0, 29),
    ip_network(192, 0, 0, 170, 31),
    ip_network(192, 0, 2, 0, 24),
    ip_network(192, 168, 0, 0, 16),
    ip_network(198, 18, 0, 0, 15),
    ip_network(198, 51, 100, 0, 24),
    ip_network(203, 0, 113, 0, 24),
    ip_network(240, 0, 0, 0, 4),
    ip_network(255, 255, 255, 255, 32) }
is_global(ip) == ~\E n \in NotGlobalNetworks : subnet_of(ip_address(ip), n)

\* ",".join(ips)
RECURSIVE Join(_)
Join(ips) ==
    IF ips = <<>> THEN <<>>
    ELSE IF Len(ips) = 1 THEN <<ips[1]>>
    ELSE <<ips[1], ",">> \o Join(Tail(ips))

\* string.split(","), for a string whose parts between commas are single
RECURSIVE Split(_)
Split(string) ==
    IF string = <<>> THEN <<>>
    ELSE IF Head(string) = "," THEN Split(Tail(string))
    ELSE <<Head(string)>> \o Split(Tail(string))

\* netsh advfirewall firewall show rule name=Chess-Block-IPs: the return
\* code and the lines of stdout as [key, value]
ShowRule ==
    IF ~firewall_rule.present
    THEN [returncode |-> 1,
          stdout |-> <<[key |-> "", value |-> <<"No rules match the specified criteria.">>]>>]
    ELSE [returncode |-> 0,
          stdout |-> <<[key |-> "Rule Name", value |-> <<"Chess-Block-IPs">>],
                       [key |-> "Direction", value |-> <<"In">>],
                       [key |-> "LocalIP", value |-> <<"Any">>],
                       [key |-> "RemoteIP", value |-> firewall_rule.remoteip],
                       [key |-> "Action", value |-> <<"Block">>]>>]

\* re.findall(r"RemoteIP:\s*(.*)", stdout), then [0].split(",") or []
RECURSIVE FindAll(_, _)
FindAll(key, stdout) ==
    IF stdout = <<>> THEN <<>>
    ELSE (IF Head(stdout).key = key THEN <<Head(stdout).value>> ELSE <<>>)
         \o FindAll(key, Tail(stdout))
ExistingIps(stdout) ==
    LET found == FindAll("RemoteIP", stdout)
    IN  IF found # <<>> THEN Split(found[1]) ELSE <<>>

\* "if ip_address in existing_ips"
AlreadyBlockedNever(ip, existing_ips) == FALSE
AlreadyBlocked(ip, existing_ips) == \E k \in 1..Len(existing_ips) : existing_ips[k] = ip

NoRule == [present |-> FALSE, remoteip |-> <<>>]
Rule(remoteip) == [present |-> TRUE, remoteip |-> remoteip]
NoBlock == [ip |-> "none", before |-> NoRule, after |-> NoRule]

FirewallInit ==
    /\ firewall_rule = NoRule
    /\ block_requested = {}
    /\ commands_ok = TRUE
    /\ last_block = NoBlock

\* the firewall's variables when the firewall is not the subject
FirewallIdle == FirewallInit

\* one run of block_ip_address(ip, ports); it never awaits, so it is one step.
\* process_outcome is how the set or add command ends
block_ip_address(ip, process_outcome) ==
    LET process_check == ShowRule
        existing_ips == ExistingIps(process_check.stdout)
        after ==
            IF ~is_global(ip) THEN firewall_rule
            ELSE IF process_check.returncode = 0
            THEN IF AlreadyBlocked(ip, existing_ips) THEN firewall_rule
                 ELSE IF process_outcome = "ok"
                 THEN Rule(Join(Append(existing_ips, ip)))
                 ELSE firewall_rule
            ELSE IF process_outcome = "ok" THEN Rule(<<ip>>) ELSE firewall_rule
        ran == is_global(ip)
               /\ ~(process_check.returncode = 0 /\ AlreadyBlocked(ip, existing_ips))
    IN  /\ firewall_rule' = after
        /\ block_requested' = IF is_global(ip) THEN block_requested \cup {ip}
                              ELSE block_requested
        /\ commands_ok' = (commands_ok /\ (ran => process_outcome = "ok"))
        /\ last_block' = [ip |-> ip, before |-> firewall_rule, after |-> after]

BlockIp ==
    \E ip \in BlockIps, process_outcome \in {"ok", "nonzero"} :
        block_ip_address(ip, process_outcome)

\* the variables outside the generator, the attempt record and the session
OthersIdle == PoolIdle /\ SupervisorIdle /\ FirewallIdle

(***************************************************************************)
(* Specifications                                                          *)
(***************************************************************************)
IdleConfig ==
    [enable_trusted_sources |-> TRUE, enable_firewall_ip_blocking |-> TRUE,
     enable_firewall_rules |-> TRUE, enable_firewall_subnet_blocking |-> TRUE,
     engine_custom_variables |-> <<>>, custom_variables |-> <<>>]

InitPlanner ==
    /\ PlannerInit
    /\ AdmissionInit
    /\ SessionIdle
    /\ OthersIdle
    /\ now = 0
    /\ config = IdleConfig

NextPlanner ==
    \/ ExcludeOne /\ UNCHANGED <<config, now, admVars, sessVars, otherVars>>
    \/ NextPublicRange /\ UNCHANGED <<config, now, admVars, sessVars, otherVars>>

SpecPlanner == InitPlanner /\ [][NextPlanner]_vars

InitAdmission ==
    /\ PlannerIdle
    /\ AdmissionInit
    /\ SessionIdle
    /\ OthersIdle
    /\ now = 0
    /\ \E b \in BOOLEAN : config = [IdleConfig EXCEPT !.enable_firewall_ip_blocking = b]

NextAdmission == Check \/ AdmTick

SpecAdmission == InitAdmission /\ [][NextAdmission]_vars

Init ==
    /\ PlannerIdle
    /\ AdmissionInit
    /\ SessionInit
    /\ OthersIdle
    /\ now = 0
    /\ config \in ConfigChoices

Next ==
    \/ Accept
    \/ Acquire
    \/ SpawnAndSend
    \/ SpawnFails
    \/ HandshakeLine
    \/ HandshakeEof
    \/ ClientPump
    \/ EnginePump
    \/ Teardown
    \/ InactivityWake
    \/ HeartbeatWake
    \/ ClientSend
    \/ ClientEof
    \/ ClientReset
    \/ EngineEmit
    \/ EngineCloseStdout
    \/ EngineExit
    \/ Tick

Spec == Init /\ [][Next]_vars

\* the event loop runs what is ready and time passes; the client and the
\* engine are not obliged to do anything
FairSpec == Spec /\ WF_vars(LoopStep) /\ WF_vars(Tick)

\* several connections sharing the semaphore
InitPool ==
    /\ PlannerIdle
    /\ AdmissionInit
    /\ SessionIdle
    /\ PoolInit
    /\ SupervisorIdle
    /\ FirewallIdle
    /\ now = 0
    /\ config = IdleConfig

PoolFrame == UNCHANGED <<plVars, config, now, admVars, sessVars, supVars, fwVars>>

NextPool ==
    \/ \E c \in ConnIds : ConnArrive(c) /\ PoolFrame
    \/ \E c \in ConnIds : ConnAcquire(c) /\ PoolFrame
    \/ \E c \in ConnIds : ConnSpawn(c) /\ PoolFrame
    \/ \E c \in ConnIds : ConnSpawnFails(c) /\ PoolFrame
    \/ \E c \in ConnIds : ConnEngineExit(c) /\ PoolFrame
    \/ \E c \in ConnIds : ConnEnds(c) /\ PoolFrame
    \/ \E c \in ConnIds : ConnTeardown(c) /\ PoolFrame
    \/ \E c \in ConnIds : ConnGone(c) /\ PoolFrame

SpecPool == InitPool /\ [][NextPool]_vars

\* main from boot to the end of asyncio.run
InitSupervisor ==
    /\ PlannerIdle
    /\ AdmissionInit
    /\ SessionIdle
    /\ PoolIdle
    /\ SupervisorInit
    /\ FirewallIdle
    /\ now = 0
    /\ \E rules \in BOOLEAN : config = [IdleConfig EXCEPT !.enable_firewall_rules = rules]

SupervisorFrame == UNCHANGED <<plVars, config, admVars, sessVars, poolVars, fwVars>>

NextSupervisor ==
    \/ MainConfigureFirewall /\ SupervisorFrame
    \/ MainCreateTasks /\ SupervisorFrame
    \/ Signal /\ SupervisorFrame
    \/ MainShutdown /\ SupervisorFrame
    \/ MainReturns /\ SupervisorFrame
    \/ RunCleanup /\ SupervisorFrame
    \/ SessionEnds /\ SupervisorFrame
    \/ SupTick /\ SupervisorFrame
    \/ \E e \in EngineNames : ListenerStart(e) /\ SupervisorFrame
    \/ \E e \in EngineNames : ListenerServeFails(e) /\ SupervisorFrame
    \/ \E e \in EngineNames : ListenerWake(e) /\ SupervisorFrame
    \/ \E e \in EngineNames : ListenerCancelled(e) /\ SupervisorFrame
    \/ \E e \in EngineNames : ListenerClosed(e) /\ SupervisorFrame
    \/ \E e \in EngineNames : SessionOpen(e) /\ SupervisorFrame

SpecSupervisor == InitSupervisor /\ [][NextSupervisor]_vars

\* block_ip_address tasks, one after the other
InitFirewall ==
    /\ PlannerIdle
    /\ AdmissionInit
    /\ SessionIdle
    /\ PoolIdle
    /\ SupervisorIdle
    /\ FirewallInit
    /\ now = 0
    /\ config = IdleConfig

NextFirewall ==
    BlockIp /\ UNCHANGED <<plVars, config, now, admVars, sessVars, poolVars, supVars>>

SpecFirewall == InitFirewall /\ [][NextFirewall]_vars

\* the event loop runs what is ready; signals, connections and serve
\* failures are not obliged to happen
FairSupervisor ==
    SpecSupervisor
    /\ WF_vars(SupervisorStep /\ SupervisorFrame)

(***************************************************************************)
(* Properties                                                              *)
(***************************************************************************)
TrustedPeers == {"10.0.0.5", "192.168.1.7"}
UntrustedPeers == {"203.0.113.1", "198.51.100.2"}
Range(seq) == {seq[k] : k \in 1..Len(seq)}

\* C1: no client line reaches the engine's stdin before the engine has
\* written a line containing "uciok", whatever the engine does.
C1_NoClientLineBeforeUciok ==
    \A k \in 1..Len(engine_writes) :
        (engine_writes[k].src = "client" /\ engine_writes[k].ok) => engine_said_uciok

\* C2: a client line "setoption name N value V" with N a single token is
\* written to the engine with the engine-local value of N (verbatim when that
\* value is "override") if N is an engine custom variable, else with the
\* global value of N if N is a global custom variable, else verbatim.
C2_OptionPrecedence ==
    LET c == last_forward.command
        w == last_forward.written
        local == config.engine_custom_variables
        global == config.custom_variables
    IN  last_forward # NoForward
        => /\ Last(engine_writes).src = "client"
           /\ Last(engine_writes).line = w
           /\ (Len(c) >= 5 /\ c[1] = "setoption" /\ c[2] = "name" /\ c[3] # ""
               /\ c[4] = "value")
              => /\ (c[3] \in DOMAIN local /\ local[c[3]] = "override") => w = c
                 /\ (c[3] \in DOMAIN local /\ local[c[3]] # "override")
                    => w = <<"setoption", "name", c[3], "value", local[c[3]]>>
                 /\ (c[3] \notin DOMAIN local /\ c[3] \in DOMAIN global)
                    => w = <<"setoption", "name", c[3], "value", global[c[3]]>>
                 /\ (c[3] \notin DOMAIN local /\ c[3] \notin DOMAIN global) => w = c

C2_Witness ==
    /\ last_forward.command = <<"setoption", "name", "Hash", "value", "999">>
    /\ last_forward.written = <<"setoption", "name", "Hash", "value", "128">>
    /\ "Hash" \in DOMAIN config.custom_variables
    /\ Last(engine_writes).ok

\* C3: once the handshake has written to the engine, what it wrote is "uci"
\* followed by one setoption per entry of the merged policy (engine-local
\* over global) whose value is not "override", and nothing else.
MergedPolicy ==
    [n \in DOMAIN config.engine_custom_variables \cup DOMAIN config.custom_variables |->
        IF n \in DOMAIN config.engine_custom_variables
        THEN config.engine_custom_variables[n]
        ELSE config.custom_variables[n]]
ProxyLines == {k \in 1..Len(engine_writes) : engine_writes[k].src = "proxy"}
C3_HandshakePushesPolicy ==
    engine_process # "none"
    => /\ 1 \in ProxyLines /\ engine_writes[1].line = <<"uci">>
       /\ {engine_writes[k].line : k \in ProxyLines \ {1}}
          = {<<"setoption", "name", n, "value", MergedPolicy[n]>> :
                n \in {m \in DOMAIN MergedPolicy : MergedPolicy[m] # "override"}}

\* C4: a session that holds a permit is eventually torn down: engine not
\* running, client stream closed, permit released, neither task pending.
HoldsPermit == pc \in {"spawn", "handshake", "pumps", "finally"}
TornDown ==
    /\ engine_process # "running"
    /\ writer = "closed"
    /\ permits = MAX_CONNECTIONS
    /\ ~Sleeping(inactivity_task)
    /\ ~Sleeping(heartbeat_task)
C4_TeardownCompletes == HoldsPermit ~> TornDown

\* C8: when check_inactivity closes the stream of a connected client, the
\* proxy has read no line in either direction during the last 900 seconds.
C8_NoCloseWhileActive ==
    (inactivity_closed_idle # -1 /\ client = "open")
    => inactivity_closed_idle > InactivityLimit

\* C9: a session (engine spawned, client connected) in which no line was read
\* for more than 900 + 60 seconds is closed: client stream closed and session
\* torn down.
C9_IdleSessionClosed ==
    (/\ engine_process # "none"
     /\ client = "open"
     /\ now - last_line_time > InactivityLimit + InactivityPeriod)
    => (writer = "closed" /\ pc = "done" /\ TornDown)

\* C5: counting the calls for an untrusted ip from one that starts a run
\* (no call for it in the period before, or its previous call was blocked),
\* while the run stays within connection_attempt_period: the call number
\* max_connection_attempts+1 is blocked, leaves the ip out of the attempt
\* record and creates a block request exactly when
\* enable_firewall_ip_blocking is set; every earlier call of the run is
\* allowed and creates no block request.
C5_ThresholdCallBlocks ==
    \A ip \in UntrustedPeers :
        LET h == attempt_history[ip] IN
        (last_check.ip = ip /\ last_check.t - h.run_start <= connection_attempt_period)
        => /\ h.run_count <= max_connection_attempts + 1
           /\ h.run_count = max_connection_attempts + 1
              => /\ last_check.outcome = "blocked"
                 /\ ip \notin DOMAIN connection_attempts
                 /\ last_check.requested = config.enable_firewall_ip_blocking
                 /\ last_check.requested => Last(block_requests) = ip
           /\ h.run_count <= max_connection_attempts
              => /\ last_check.outcome = "allowed"
                 /\ ~last_check.requested
                 /\ ip \in DOMAIN connection_attempts

C5_Witness ==
    /\ last_check.ip = "203.0.113.1"
    /\ last_check.outcome = "blocked"
    /\ attempt_history["203.0.113.1"].run_count = max_connection_attempts + 1
    /\ last_check.t - attempt_history["203.0.113.1"].run_start <= connection_attempt_period
    /\ last_check.t > 0
    /\ block_requests = <<"203.0.113.1">>

\* C6: right after a call that changed the attempt record, every timestamp
\* in it, at every position of every list, is at most
\* connection_attempt_period old.
C6_NoStaleTimestamp ==
    last_check.outcome \in {"allowed", "blocked"}
    => \A ip \in DOMAIN connection_attempts :
         \A k \in 1..Len(connection_attempts[ip]) :
            last_check.t - connection_attempts[ip][k] <= connection_attempt_period

\* C7: a peer in trusted_sources or inside a trusted subnet is classified
\* trusted by every call, is never a key of the attempt record and is never
\* the subject of a block request.
C7_TrustedNeverCounted ==
    \A ip \in TrustedPeers :
        /\ ip \notin DOMAIN connection_attempts
        /\ ip \notin Range(block_requests)
        /\ last_check.ip = ip => last_check.outcome = "trusted"

C7_Witness ==
    /\ last_check.ip = "192.168.1.7"
    /\ last_check.outcome = "trusted"
    /\ attempt_history["192.168.1.7"].run_count > max_connection_attempts + 1
    /\ last_check.t = attempt_history["192.168.1.7"].run_start

\* C10: when generate_subnets_to_avoid returns, the addresses covered by the
\* returned CIDRs are exactly the addresses of the public ranges that no
\* avoid entry covers.
InSome(nets, p) == \E n \in nets : subnet_of(p, n)
MeetsSome(nets, p) == \E n \in nets : subnet_of(p, n) \/ subnet_of(n, p)
RECURSIVE SameAddresses(_, _, _, _)
SameAddresses(out, pub, avoid, p) ==
    LET outAll == InSome(out, p)
        outNone == ~MeetsSome(out, p)
        wantAll == InSome(pub, p) /\ ~MeetsSome(avoid, p)
        wantNone == ~MeetsSome(pub, p) \/ InSome(avoid, p)
    IN  IF (outAll \/ outNone) /\ (wantAll \/ wantNone) THEN outAll = wantAll
        ELSE /\ SameAddresses(out, pub, avoid, Append(p, 0))
             /\ SameAddresses(out, pub, avoid, Append(p, 1))

C10_ExactComplement ==
    PlannerDone
    => SameAddresses(Range(subnets_to_use), Range(public_ranges),
                     Range(addresses_to_exclude), <<>>)

\* C11: the connections inside "async with sem" are at most MAX_CONNECTIONS
\* and account for every permit taken, every live engine belongs to one of
\* them, and a connection waiting for a permit has no engine.
C11_PermitBound ==
    /\ Cardinality(Holders) <= MAX_CONNECTIONS
    /\ sem = MAX_CONNECTIONS - Cardinality(Holders)
    /\ LiveEngines \subseteq Holders
    /\ \A c \in ConnIds : conn_pc[c] = "waiting" => conn_engine[c] = "none"

C11_Witness ==
    /\ sem = 0
    /\ Cardinality(LiveEngines) = MAX_CONNECTIONS
    /\ \E c \in ConnIds : conn_pc[c] = "waiting"

\* C12: with enable_trusted_sources off, a connection of an untrusted peer is
\* not rejected: once the handler has passed its checks it does not return
\* without having spawned an engine.
C12_AdmissionGated ==
    (~config.enable_trusted_sources /\ ~IsTrusted(client_ip))
    => ~(pc = "done" /\ engine_process = "none")

\* C13: with enable_trusted_sources on, a connection of an untrusted peer
\* never holds a permit and never has an engine, and once its handler has
\* run, the attempt was counted by one call of check_connection_attempts and
\* the client stream is closed.
C13_UntrustedNeverServed ==
    (config.enable_trusted_sources /\ ~IsTrusted(client_ip))
    => /\ engine_process = "none"
       /\ engine_writes = <<>>
       /\ permits = MAX_CONNECTIONS
       /\ pc \in {"accepted", "done"}
       /\ pc = "done"
          => /\ writer = "closed"
             /\ checks_done = 1
             /\ last_check.ip = client_ip
             /\ last_check.outcome = "allowed"
             /\ client_ip \in DOMAIN connection_attempts

C13_Witness ==
    /\ config.enable_trusted_sources
    /\ client_ip = "203.0.113.1"
    /\ pc = "done"
    /\ writer = "closed"
    /\ Len(connection_attempts["203.0.113.1"]) = 1

\* C14: after the signal, eventually main has returned with every listener
\* stopped and, for a session active at the signal, the engine terminated
\* and the client socket closed; and main never returns before that.
ShutdownSettled ==
    /\ \A e \in EngineNames : ListenerOver(e)
    /\ active_at_signal
       => (active_session.engine # "running" /\ active_session.socket = "closed")
C14_ShutdownSettles ==
    /\ [](main_pc = "returned" => ShutdownSettled)
    /\ shutdown_event ~> (main_pc = "returned" /\ ShutdownSettled)

\* C15: a listener starts with 5 retries; each exception consumes exactly
\* one; attempts never exceed 5; every attempt after a failure comes at
\* least 5 seconds after it; the listener is over by exhaustion exactly when
\* no retry is left; a cancelled listener has consumed no retry for it.
C15_RetryBudget ==
    \A e \in EngineNames :
        LET l == listeners[e] IN
        /\ l.retries + l.failures = InitialRetries
        /\ l.retries >= 0
        /\ l.attempts <= InitialRetries
        /\ l.attempts - l.failures \in {0, 1}
        /\ (l.retries = 0) <=> (l.state = "exhausted")
        /\ l.gap = -1 \/ l.gap >= RetrySleep
        /\ l.state \in {"sleeping", "cancelled"} => l.retries > 0

C15_Witness ==
    \E e \in EngineNames, f \in EngineNames :
        /\ listeners[e].state = "exhausted"
        /\ listeners[e].attempts = InitialRetries
        /\ listeners[e].gap = RetrySleep
        /\ listeners[f].state = "cancelled"
        /\ listeners[f].failures = 2
        /\ listeners[f].retries = InitialRetries - 2

\* C16: once every listener is over by exhaustion, the process terminates
\* without a signal.
AllExhausted == \A e \in EngineNames : listeners[e].state = "exhausted"
C16_AllExhaustedIsFatal ==
    (AllExhausted /\ ~shutdown_event) ~> (main_pc \in {"returned", "raised"} \/ shutdown_event)

\* C19: whichever way a firewall command fails at boot, main goes on to
\* start the listeners.
C19_FirewallFailureNonFatal ==
    firewall_failure # "no" => main_pc \in {"create_tasks", "waiting", "gathering", "returned"}

\* C17: once the client stream is closed during the pumps (the client sent
\* end of file, or check_inactivity closed the writer), the session is
\* eventually torn down, whatever the engine does or does not do.
ClientStreamClosed == pc = "pumps" /\ (client = "eof" \/ writer = "closed")
C17_ClientCloseEndsSession == ClientStreamClosed ~> TornDown

\* C18: when the handler is past the spawn of a trusted peer's connection
\* without an engine (the spawn failed), it has returned normally with the
\* client stream closed, the permit released and the inactivity task cancelled.
SpawnFailed ==
    /\ IsTrusted(client_ip)
    /\ engine_process = "none"
    /\ pc \notin {"accepted", "acquire", "spawn"}
C18_SpawnFailureAborts ==
    SpawnFailed
    => /\ pc = "done"
       /\ writer = "closed"
       /\ permits = MAX_CONNECTIONS
       /\ ~Sleeping(inactivity_task)

\* C20: while every firewall command has succeeded, the rule lists exactly
\* the global IPs requested, each once; a call for a listed IP (or for an IP
\* that is not global) leaves the rule as it was, and a call for a new
\* global IP makes the list the previous list followed by that IP.
RuleIps(rule) == IF rule.present THEN Split(rule.remoteip) ELSE <<>>
C20_BlockIdempotent ==
    commands_ok
    => /\ Range(RuleIps(firewall_rule)) = block_requested
       /\ Len(RuleIps(firewall_rule)) = Cardinality(block_requested)
       /\ last_block # NoBlock
          => LET before == RuleIps(last_block.before)
                 after == RuleIps(last_block.after)
             IN  /\ last_block.after = firewall_rule
                 /\ (~is_global(last_block.ip) \/ last_block.ip \in Range(before))
                    => last_block.after = last_block.before
                 /\ (is_global(last_block.ip) /\ last_block.ip \notin Range(before))
                    => after = Append(before, last_block.ip)

C20_Witness ==
    /\ commands_ok
    /\ firewall_rule = Rule(<<"9.9.9.9", ",", "1.2.3.4", ",", "8.8.8.8">>)
    /\ last_block.ip = "1.2.3.4"
    /\ last_block.before = firewall_rule

\* C21: once client_handler has returned or raised, neither task it started
\* is still pending more than one period of that task later.
C21_TasksEndWithHandler ==
    returned_at # -1
    => /\ Sleeping(inactivity_task) => now - returned_at <= InactivityPeriod
       /\ Sleeping(heartbeat_task) => now - returned_at <= HeartbeatInterval

\* C22: a client line that does not start with "setoption name" is written
\* to the engine with its content as received, a carriage return included;
\* and a client line whose write to the engine failed is not followed by
\* the pump reading on.
StartsWithSetoptionName(line) ==
    Len(line) >= 2 /\ line[1] = "setoption" /\ line[2] = "name"
C22_LinesPassUnchanged ==
    /\ (last_forward # NoForward /\ ~StartsWithSetoptionName(last_forward.raw))
       => last_forward.written = last_forward.raw
    /\ \A k \in 1..Len(engine_writes) :
          (engine_writes[k].src = "client" /\ ~engine_writes[k].ok) => cpump # "reading"

\* C23: after every call of check_connection_attempts, every ip in the
\* attempt record has between 1 and max_connection_attempts timestamps; and
\* a blocked call for an ip is at least the call number
\* max_connection_attempts+1 for that ip after its previous blocked call.
C23_RecordBounded ==
    /\ \A ip \in DOMAIN connection_attempts :
          /\ Len(connection_attempts[ip]) >= 1
          /\ Len(connection_attempts[ip]) <= max_connection_attempts
    /\ \A ip \in PeerIPs :
          (last_check.ip = ip /\ last_check.outcome = "blocked")
          => attempt_history[ip].since_block >= max_connection_attempts + 1

C23_Witness ==
    /\ block_requests = <<"203.0.113.1", "203.0.113.1">>
    /\ last_check.outcome = "blocked"
    /\ attempt_history["203.0.113.1"].since_block = max_connection_attempts + 1
    /\ connection_attempts = <<>>

====
